---- MODULE Spec2Model ----
(***************************************************************************)
(* WinduVision: the dual-camera pipeline loop (VideoThread.run in          *)
(* WinduModel.py, ProcessThread.run in process_thread.py), the commands    *)
(* the coordinator thread issues into it (pause, resume, stop,             *)
(* toggle_recording, set_offset, zoom_in, zoom_out) and the alignment      *)
(* tick (AlignThread.run -> auto_offset).                                  *)
(*                                                                         *)
(* Two implementations of the pipeline live in the repository; the         *)
(* variable impl says which one an execution runs.  Every shared-variable  *)
(* read and write of the two threads is a step of its own, so that TLC     *)
(* explores every interleaving of the loop thread with the caller.         *)
(***************************************************************************)
EXTENDS Integers, Sequences, FiniteSets, TLC

VARIABLES
    impl,          \* "VideoThread" | "ProcessThread": which pipeline class runs
    stopping,      \* self.stopping
    pausing,       \* self.pausing
    isPaused,      \* self.isPaused
    recording,     \* self.recording
    pcRun,         \* position of the loop thread inside run()
    pcCmd,         \* position of the coordinator (caller) thread
    writer,        \* self.writer: [state, frames, closes]
    artifact,      \* the video file on disk: "absent" | "open" | "closed"
    camsOpen,      \* VideoThread.cams (DualCamera) holds the camera devices
    out,           \* the signals the last step handed to the mediator
    pauseHeld,     \* history: pause() has returned and resume() was not called since
    stopReturned,  \* history: stop() has returned
    stoppedFrom,   \* history: loop state seen when stop() was called
    lastCmd,       \* history: the command that returned last
    recSeen,       \* history: frames for which the loop found recording true (this sink)
    lateWrite,     \* history: writer.write() was called on a released sink
    stoppedRec,    \* history: stop() was called while recording
    offset_x,      \* self.offset_x
    offset_y,      \* self.offset_y
    zoom,          \* self.zoom, in units of 1/ZoomUnit
    display_width, \* self.display_width
    display_height, \* self.display_height
    resize_matrix_R, \* ProcessThread.resize_matrix_R; VideoThread.resize_matrix
    resize_matrix_L, \* ProcessThread.resize_matrix_L; VideoThread.resize_matrix
    offset_matrix, \* VideoThread.offset_matrix
    pcAlign,       \* position of the alignment thread inside its tick
    al,            \* the alignment thread's tick: its locals and what it measured
    co,            \* the same for an auto_offset() run by the coordinator thread
    hist,          \* history: the last zoom call and the state it found
    gain,          \* the tuned camera's gain (cap_thread.get_one_cam_parm('gain'))
    exposure,      \* the tuned camera's exposure
    pcTune,        \* position of the tuning thread inside CamTuneThread.main
    tk,            \* the tuning tick: its locals, and history of what it did
    bufPublished,  \* the array self.imgDisplay names was handed to the mediator
    bufMutated,    \* history: the loop wrote into an array it had handed out
    ndisparities,  \* self.ndisparities
    SADWindowSize, \* self.SADWindowSize
    pubsPending,   \* history: frames published since pause() set its request
    offsetWriters, \* history: the threads that have written the offsets
    img_shape,     \* shape of the frame capture_thread_R.get_image() returns
    builds,        \* history: the last two set_resize_matrix() calls
    cams,          \* DualCamera.camR, camL: "open", "absent" (None) or "released"
    camImg,        \* DualCamera.imgR, imgL: the frames read() stored last
    pcRd,          \* position of each caller inside DualCamera.read()
    got,           \* what each caller's last read() returned
    xfVer,         \* the rebuild that wrote each matrix and the buffers
    xfUsed,        \* the rebuilds whose matrices and buffers the iteration used
    xfGen,         \* number of set_resize_matrix() calls begun
    pcXf,          \* position of the caller inside set_resize_matrix()
    pcIt,          \* position of the loop inside the transform of one iteration
    parms,         \* CamTuneThread: tolerance and learn_rate of parameters/auto_cam.json
    alignStopping, \* AlignThread.stopping
    newFields      \* attributes of the pipeline object that __init__ did not make

ctlVars == << stopping, pausing, isPaused, recording, pcRun, pcCmd, writer,
              artifact, camsOpen, out, pauseHeld, stopReturned, stoppedFrom,
              lastCmd, recSeen, lateWrite, stoppedRec, pubsPending >>

geomVars == << offset_x, offset_y, zoom, display_width, display_height,
               resize_matrix_R, resize_matrix_L, offset_matrix, pcAlign, al, co,
               hist, offsetWriters >>

tuneVars == << gain, exposure, pcTune, tk >>

bufVars == << bufPublished, bufMutated >>

depthVars == << ndisparities, SADWindowSize >>

shapeVars == << img_shape, builds >>

camVars == << cams, camImg, pcRd, got >>

xfVars == << xfVer, xfUsed, xfGen, pcXf, pcIt >>

miscVars == << parms, alignStopping, newFields >>

vars == << impl, ctlVars, geomVars, tuneVars, bufVars, depthVars, shapeVars,
          camVars, xfVars, miscVars >>

VT == "VideoThread"
PT == "ProcessThread"

\* Counters of frames saturate here so that the state space stays finite.
MaxFrames == 2

Range(s) == { s[i] : i \in DOMAIN s }

Inc(n) == IF n < MaxFrames THEN n + 1 ELSE n

\* rows, cols = self.display_height, self.display_width / 2: the columns of
\* each warped half image.
HalfCols(w) == w \div 2

\* The columns of self.imgDisplay[:, 0:(w/2), :] and of
\* self.imgDisplay[:, (w/2):w, :].
LeftSlice(w) == w \div 2
RightSlice(w) == w - w \div 2

\* numpy assigns an image to a slice of its own width, and spreads an image
\* one column wide over a slice of any width; every other pair of widths
\* raises ValueError.
Assignable(src, dst) == src = dst \/ src = 1


NoWriter == [state |-> "none", frames |-> 0, closes |-> 0]

(***************************************************************************)
(* The loop thread: run()                                                  *)
(***************************************************************************)

\* A loop that goes straight to the next frame while it records.
run_while_skips_pause_test ==
    /\ pcRun = "while"
    /\ pcRun' = IF stopping THEN "after" ELSE IF recording THEN "read" ELSE "pause"
    /\ out' = << >>
    /\ UNCHANGED << impl, miscVars, shapeVars, camVars, xfVars, pubsPending, tuneVars, depthVars, bufVars, geomVars, stoppedRec, stopping, pausing, isPaused, recording, pcCmd, writer,
                    artifact, camsOpen, pauseHeld, stopReturned, stoppedFrom,
                    lastCmd, recSeen, lateWrite >>

\* while not self.stopping:
run_while ==
    /\ pcRun = "while"
    /\ pcRun' = IF stopping THEN "after" ELSE "pause"
    /\ out' = << >>
    /\ UNCHANGED << impl, miscVars, shapeVars, camVars, xfVars, pubsPending, tuneVars, depthVars, bufVars, geomVars, stoppedRec, stopping, pausing, isPaused, recording, pcCmd, writer,
                    artifact, camsOpen, pauseHeld, stopReturned, stoppedFrom,
                    lastCmd, recSeen, lateWrite >>

\* if self.pausing:
run_pause_test ==
    /\ pcRun = "pause"
    /\ pcRun' = IF pausing THEN "set_paused" ELSE "clr_paused"
    /\ out' = << >>
    /\ UNCHANGED << impl, miscVars, shapeVars, camVars, xfVars, pubsPending, tuneVars, depthVars, bufVars, geomVars, stoppedRec, stopping, pausing, isPaused, recording, pcCmd, writer,
                    artifact, camsOpen, pauseHeld, stopReturned, stoppedFrom,
                    lastCmd, recSeen, lateWrite >>

\* The paused branch without its 'continue': the iteration goes on.
run_set_paused_no_continue ==
    /\ pcRun = "set_paused"
    /\ isPaused' = TRUE
    /\ pcRun' = "read"
    /\ out' = << >>
    /\ UNCHANGED << impl, miscVars, shapeVars, camVars, xfVars, pubsPending, tuneVars, depthVars, bufVars, geomVars, stoppedRec, stopping, pausing, recording, pcCmd, writer,
                    artifact, camsOpen, pauseHeld, stopReturned, stoppedFrom,
                    lastCmd, recSeen, lateWrite >>

\* The paused branch as an inner wait that never looks at self.stopping.
run_set_paused_inner_wait ==
    /\ pcRun = "set_paused"
    /\ isPaused' = TRUE
    /\ pcRun' = "pause"
    /\ out' = << >>
    /\ UNCHANGED << impl, miscVars, shapeVars, camVars, xfVars, pubsPending, tuneVars, depthVars, bufVars, geomVars, stoppedRec, stopping, pausing, recording, pcCmd, writer,
                    artifact, camsOpen, pauseHeld, stopReturned, stoppedFrom,
                    lastCmd, recSeen, lateWrite >>

\* self.isPaused = True; time.sleep(0.1); continue
run_set_paused ==
    /\ pcRun = "set_paused"
    /\ isPaused' = TRUE
    /\ pcRun' = "while"
    /\ out' = << >>
    /\ UNCHANGED << impl, miscVars, shapeVars, camVars, xfVars, pubsPending, tuneVars, depthVars, bufVars, geomVars, stoppedRec, stopping, pausing, recording, pcCmd, writer,
                    artifact, camsOpen, pauseHeld, stopReturned, stoppedFrom,
                    lastCmd, recSeen, lateWrite >>

\* else: self.isPaused = False
run_clr_paused ==
    /\ pcRun = "clr_paused"
    /\ isPaused' = FALSE
    /\ pcRun' = "read"
    /\ out' = << >>
    /\ UNCHANGED << impl, miscVars, shapeVars, camVars, xfVars, pubsPending, tuneVars, depthVars, bufVars, geomVars, stoppedRec, stopping, pausing, recording, pcCmd, writer,
                    artifact, camsOpen, pauseHeld, stopReturned, stoppedFrom,
                    lastCmd, recSeen, lateWrite >>

\* The shape test that ends the loop on a mismatch.
run_read_mismatch_ends ==
    /\ pcRun = "read"
    /\ \E sameShape \in BOOLEAN :
          IF sameShape
          THEN /\ pcRun' = "compose"
               /\ out' = << >>
          ELSE /\ pcRun' = "after"
               /\ out' = << "set_info_text" >>
    /\ UNCHANGED << impl, miscVars, shapeVars, camVars, xfVars, pubsPending, tuneVars, depthVars, bufVars, geomVars, stoppedRec, stopping, pausing, isPaused, recording, pcCmd, writer,
                    artifact, camsOpen, pauseHeld, stopReturned, stoppedFrom,
                    lastCmd, recSeen, lateWrite >>

\* Read the two frames; when their shapes differ report and skip the cycle.
run_read ==
    /\ pcRun = "read"
    /\ \E sameShape \in BOOLEAN :
          IF sameShape
          THEN /\ pcRun' = "compose"
               /\ out' = << >>
          ELSE /\ pcRun' = "while"
               /\ out' = << "set_info_text" >>
    /\ UNCHANGED << impl, miscVars, shapeVars, camVars, xfVars, pubsPending, tuneVars, depthVars, bufVars, geomVars, stoppedRec, stopping, pausing, isPaused, recording, pcCmd, writer,
                    artifact, camsOpen, pauseHeld, stopReturned, stoppedFrom,
                    lastCmd, recSeen, lateWrite >>

\* warpAffine both sides and combine them into self.imgDisplay: the halves are
\* assigned into the array that self.imgDisplay names, in place.
\* VideoThread records before it emits, ProcessThread emits before it records.
\* A half image that does not fit its slice raises in the loop thread, which
\* ends there.
run_compose ==
    /\ pcRun = "compose"
    /\ pcRun' = IF /\ Assignable(HalfCols(display_width), LeftSlice(display_width))
                   /\ Assignable(HalfCols(display_width), RightSlice(display_width))
                THEN (IF impl = VT THEN "rec" ELSE "emit")
                ELSE "raised"
    /\ out' = << >>
    /\ bufMutated' = (bufMutated \/ bufPublished)
    /\ UNCHANGED << impl, miscVars, shapeVars, camVars, xfVars, pubsPending, tuneVars, depthVars, bufPublished, geomVars, stoppedRec, stopping, pausing, isPaused, recording, pcCmd, writer,
                    artifact, camsOpen, pauseHeld, stopReturned, stoppedFrom,
                    lastCmd, recSeen, lateWrite >>

\* emit_signal('display_image', self.imgDisplay); self.emit_fps_info()
run_emit ==
    /\ pcRun = "emit"
    /\ out' = << "display_image", "set_info_text" >>
    /\ pcRun' = IF impl = VT THEN "while" ELSE "rec"
    /\ bufPublished' = TRUE
    /\ pubsPending' = IF pausing /\ ~isPaused THEN Inc(pubsPending) ELSE pubsPending
    /\ UNCHANGED << impl, miscVars, shapeVars, camVars, xfVars, tuneVars, depthVars, bufMutated, geomVars, stoppedRec, stopping, pausing, isPaused, recording, pcCmd, writer,
                    artifact, camsOpen, pauseHeld, stopReturned, stoppedFrom,
                    lastCmd, recSeen, lateWrite >>

\* if self.recording:
run_rec_test ==
    /\ pcRun = "rec"
    /\ IF recording
       THEN /\ pcRun' = "write"
            /\ recSeen' = Inc(recSeen)
       ELSE /\ pcRun' = IF impl = VT THEN "emit" ELSE "while"
            /\ UNCHANGED recSeen
    /\ out' = << >>
    /\ UNCHANGED << impl, miscVars, shapeVars, camVars, xfVars, pubsPending, tuneVars, depthVars, bufVars, geomVars, stoppedRec, stopping, pausing, isPaused, recording, pcCmd, writer,
                    artifact, camsOpen, pauseHeld, stopReturned, stoppedFrom,
                    lastCmd, lateWrite >>

\* self.writer.write(self.imgDisplay): a sink that is not open drops the frame.
run_write ==
    /\ pcRun = "write"
    /\ IF writer.state = "open"
       THEN /\ writer' = [writer EXCEPT !.frames = Inc(@)]
            /\ UNCHANGED lateWrite
       ELSE /\ lateWrite' = (lateWrite \/ writer.state = "released")
            /\ UNCHANGED writer
    /\ pcRun' = IF impl = VT THEN "emit" ELSE "while"
    /\ out' = << >>
    /\ UNCHANGED << impl, miscVars, shapeVars, camVars, xfVars, pubsPending, tuneVars, depthVars, bufVars, geomVars, stoppedRec, stopping, pausing, isPaused, recording, pcCmd,
                    artifact, camsOpen, pauseHeld, stopReturned, stoppedFrom,
                    lastCmd, recSeen >>

\* After the loop: VideoThread closes the cameras (cam.release() for each
\* camera that is not None); both disconnect the signals.
run_after ==
    /\ pcRun = "after"
    /\ camsOpen' = IF impl = VT THEN FALSE ELSE camsOpen
    /\ cams' = IF impl = VT
               THEN [s \in DOMAIN cams |-> IF cams[s] = "open" THEN "released" ELSE cams[s]]
               ELSE cams
    /\ pcRun' = "exited"
    /\ out' = << >>
    /\ UNCHANGED << impl, miscVars, shapeVars, camImg, pcRd, got, xfVars, pubsPending, tuneVars, depthVars, bufVars, geomVars, stoppedRec, stopping, pausing, isPaused, recording, pcCmd, writer,
                    artifact, pauseHeld, stopReturned, stoppedFrom,
                    lastCmd, recSeen, lateWrite >>

run ==
    \/ run_while
    \/ run_pause_test
    \/ run_set_paused
    \/ run_clr_paused
    \/ run_read
    \/ run_compose
    \/ run_emit
    \/ run_rec_test
    \/ run_write
    \/ run_after

(***************************************************************************)
(* The coordinator thread: pause(), resume()                               *)
(***************************************************************************)

\* pause(): self.pausing = True
pause_set ==
    /\ pcCmd = "idle"
    /\ pausing' = TRUE
    /\ pubsPending' = 0
    /\ pcCmd' = "pause_wait"
    /\ out' = << >>
    /\ UNCHANGED << impl, miscVars, shapeVars, camVars, xfVars, tuneVars, depthVars, bufVars, geomVars, stoppedRec, stopping, isPaused, recording, pcRun, writer,
                    artifact, camsOpen, pauseHeld, stopReturned, stoppedFrom,
                    lastCmd, recSeen, lateWrite >>

\* pause(): while not self.isPaused: sleep; return
pause_wait ==
    /\ pcCmd = "pause_wait"
    /\ isPaused
    /\ pcCmd' = "idle"
    /\ pauseHeld' = TRUE
    /\ lastCmd' = "pause"
    /\ out' = << >>
    /\ UNCHANGED << impl, miscVars, shapeVars, camVars, xfVars, pubsPending, tuneVars, depthVars, bufVars, geomVars, stoppedRec, stopping, pausing, isPaused, recording, pcRun, writer,
                    artifact, camsOpen, stopReturned, stoppedFrom,
                    recSeen, lateWrite >>

\* resume(): self.pausing = False
resume_set ==
    /\ pcCmd = "idle"
    /\ pausing' = FALSE
    /\ pcCmd' = "resume_wait"
    /\ pauseHeld' = FALSE
    /\ out' = << >>
    /\ UNCHANGED << impl, miscVars, shapeVars, camVars, xfVars, pubsPending, tuneVars, depthVars, bufVars, geomVars, stoppedRec, stopping, isPaused, recording, pcRun, writer,
                    artifact, camsOpen, stopReturned, stoppedFrom,
                    lastCmd, recSeen, lateWrite >>

\* resume(): while self.isPaused: sleep; return
resume_wait ==
    /\ pcCmd = "resume_wait"
    /\ ~isPaused
    /\ pcCmd' = "idle"
    /\ lastCmd' = "resume"
    /\ out' = << >>
    /\ UNCHANGED << impl, miscVars, shapeVars, camVars, xfVars, pubsPending, tuneVars, depthVars, bufVars, geomVars, stoppedRec, stopping, pausing, isPaused, recording, pcRun, writer,
                    artifact, camsOpen, pauseHeld, stopReturned, stoppedFrom,
                    recSeen, lateWrite >>

(***************************************************************************)
(* The coordinator thread: toggle_recording()                              *)
(***************************************************************************)

\* if not self.recording: ... else: self.recording = False
\* (self.recording is written by the coordinator thread alone, so the test
\*  and the write that follows it are one step)
toggle_test ==
    /\ pcCmd = "idle"
    /\ IF ~recording
       THEN /\ pcCmd' = "tog_open"
            /\ UNCHANGED recording
       ELSE /\ recording' = FALSE
            /\ pcCmd' = "tog_release"
    /\ out' = << >>
    /\ UNCHANGED << impl, miscVars, shapeVars, camVars, xfVars, pubsPending, tuneVars, depthVars, bufVars, geomVars, stoppedRec, stopping, pausing, isPaused, pcRun, writer,
                    artifact, camsOpen, pauseHeld, stopReturned, stoppedFrom,
                    lastCmd, recSeen, lateWrite >>

\* self.writer = cv2.VideoWriter(...): the sink opens or fails to open.
\* ProcessThread tests self.writer.isOpened() and only reports a failure;
\* VideoThread goes on to set self.recording whatever the sink's state.
toggle_open ==
    /\ pcCmd = "tog_open"
    /\ \E opened \in BOOLEAN :
          /\ writer' = [state  |-> IF opened THEN "open" ELSE "failed",
                        frames |-> 0, closes |-> 0]
          /\ artifact' = IF opened THEN "open" ELSE artifact
          /\ IF impl = VT \/ opened
             THEN /\ pcCmd' = "tog_on"
                  /\ UNCHANGED lastCmd
             ELSE /\ pcCmd' = "idle"
                  /\ lastCmd' = "toggle_failed"
    /\ recSeen' = 0
    /\ lateWrite' = FALSE
    /\ out' = << >>
    /\ UNCHANGED << impl, miscVars, shapeVars, camVars, xfVars, pubsPending, tuneVars, depthVars, bufVars, geomVars, stoppedRec, stopping, pausing, isPaused, recording, pcRun,
                    camsOpen, pauseHeld, stopReturned, stoppedFrom >>

\* self.recording = True; emit_signal('recording_starts')
toggle_on ==
    /\ pcCmd = "tog_on"
    /\ recording' = TRUE
    /\ out' = << "recording_starts" >>
    /\ pcCmd' = "idle"
    /\ lastCmd' = "toggle_on"
    /\ UNCHANGED << impl, miscVars, shapeVars, camVars, xfVars, pubsPending, tuneVars, depthVars, bufVars, geomVars, stoppedRec, stopping, pausing, isPaused, pcRun, writer,
                    artifact, camsOpen, pauseHeld, stopReturned, stoppedFrom,
                    recSeen, lateWrite >>

\* cv2.VideoWriter.release(): closes an open sink, and the file with it.
Release(w) ==
    [w EXCEPT !.state  = IF @ = "open" THEN "released" ELSE @,
              !.closes = IF w.state = "open" THEN @ + 1 ELSE @]

\* self.writer.release(); emit_signal('recording_ends')
toggle_release ==
    /\ pcCmd = "tog_release"
    /\ writer' = Release(writer)
    /\ artifact' = IF writer.state = "open" THEN "closed" ELSE artifact
    /\ out' = << "recording_ends" >>
    /\ pcCmd' = "idle"
    /\ lastCmd' = "toggle_off"
    /\ UNCHANGED << impl, miscVars, shapeVars, camVars, xfVars, pubsPending, tuneVars, depthVars, bufVars, geomVars, stoppedRec, stopping, pausing, isPaused, recording, pcRun,
                    camsOpen, pauseHeld, stopReturned, stoppedFrom,
                    recSeen, lateWrite >>

(***************************************************************************)
(* The coordinator thread: stop()                                          *)
(***************************************************************************)

\* if self.recording: self.recording = False
stop_test ==
    /\ pcCmd = "idle"
    /\ ~stopReturned
    /\ IF recording
       THEN /\ recording' = FALSE
            /\ pcCmd' = "stop_release"
       ELSE /\ pcCmd' = "stop_set"
            /\ UNCHANGED recording
    /\ stoppedFrom' = IF isPaused THEN "paused" ELSE "running"
    /\ stoppedRec' = recording
    /\ out' = << >>
    /\ UNCHANGED << impl, miscVars, shapeVars, camVars, xfVars, pubsPending, tuneVars, depthVars, bufVars, geomVars, stopping, pausing, isPaused, pcRun, writer,
                    artifact, camsOpen, pauseHeld, stopReturned,
                    lastCmd, recSeen, lateWrite >>

\* self.writer.release(); ProcessThread then removes the temporary file,
\* VideoThread leaves 'Windu Vision.avi' where it is.
stop_release ==
    /\ pcCmd = "stop_release"
    /\ writer' = Release(writer)
    /\ artifact' = IF impl = PT THEN "absent"
                   ELSE IF writer.state = "open" THEN "closed" ELSE artifact
    /\ pcCmd' = "stop_set"
    /\ out' = << >>
    /\ UNCHANGED << impl, miscVars, shapeVars, camVars, xfVars, pubsPending, tuneVars, depthVars, bufVars, geomVars, stoppedRec, stopping, pausing, isPaused, recording, pcRun,
                    camsOpen, pauseHeld, stopReturned, stoppedFrom,
                    lastCmd, recSeen, lateWrite >>

\* self.stopping = True, and stop() returns
stop_set ==
    /\ pcCmd = "stop_set"
    /\ stopping' = TRUE
    /\ stopReturned' = TRUE
    /\ pcCmd' = "idle"
    /\ lastCmd' = "stop"
    /\ out' = << >>
    /\ UNCHANGED << impl, miscVars, shapeVars, camVars, xfVars, pubsPending, tuneVars, depthVars, bufVars, geomVars, stoppedRec, pausing, isPaused, recording, pcRun, writer,
                    artifact, camsOpen, pauseHeld, stoppedFrom,
                    recSeen, lateWrite >>

(***************************************************************************)
(* Frames and the correlation of detect_offset / auto_offset               *)
(***************************************************************************)

Abs(n) == IF n < 0 THEN -n ELSE n

\* Camera frames after rotation: ImgRows x ImgCols.
ImgRows == 640
ImgCols == 480

\* Small frames whose pixels are modelled one by one: PixRows x PixCols.
PixRows == 20
PixCols == 4

\* a = int(row*0.25), b = int(row*0.75): the ROI of the left image
RoiLo(n) == n \div 4
RoiHi(n) == (3 * n) \div 4

\* Grey levels (1..4) of the rows of the textured test frame.
Texture == << 4, 2, 1, 2, 2, 2, 3, 3, 2, 4, 2, 1, 2, 4, 2, 4, 3, 4, 1, 1,
              3, 3, 3, 1, 4, 4 >>

LeftPixel(r, c) == 1 + ((Texture[r + 1] + 2 * c + r * c) % 4)

\* The left frame, and the right frame: the left one moved down by sy rows and
\* right by sx columns (grey level 1 where nothing moved in).
LeftFrame == [r \in 0 .. PixRows - 1 |-> [c \in 0 .. PixCols - 1 |-> LeftPixel(r, c)]]

RightFrame(sx, sy) ==
    [r \in 0 .. PixRows - 1 |->
        [c \in 0 .. PixCols - 1 |->
            IF r - sy \in 0 .. PixRows - 1 /\ c - sx \in 0 .. PixCols - 1
            THEN LeftPixel(r - sy, c - sx)
            ELSE 1]]

SolidFrame == [r \in 0 .. PixRows - 1 |-> [c \in 0 .. PixCols - 1 |-> 2]]

RECURSIVE SumOver(_, _)
SumOver(f, S) ==
    IF S = {} THEN 0
    ELSE LET e == CHOOSE e \in S : TRUE IN f[e] + SumOver(f, S \ {e})

\* cv2.matchTemplate(image, templ, TM_CCORR_NORMED): at every place (y, x) of
\* the template, num = sum T*I and en = sum I*I over the covered patch; the
\* result is num / sqrt(sum T*T * en), and sum T*T is the same everywhere.
matchTemplate(image, templ, rows, cols, th, tw) ==
    [pos \in (0 .. rows - th) \X (0 .. cols - tw) |->
        LET cells == (0 .. th - 1) \X (0 .. tw - 1)
            prod  == [k \in cells |-> templ[k[1]][k[2]] * image[pos[1] + k[1]][pos[2] + k[2]]]
            sq    == [k \in cells |-> image[pos[1] + k[1]][pos[2] + k[2]] * image[pos[1] + k[1]][pos[2] + k[2]]]
        IN  [num |-> SumOver(prod, cells), en |-> SumOver(sq, cells)]]

\* p scores higher than q:  num_p / sqrt(en_p) > num_q / sqrt(en_q)
Higher(p, q) == p.num * p.num * q.en > q.num * q.num * p.en

\* cv2.minMaxLoc(mat)[3]: the place of the maximum, the first one in scan
\* order (row by row) when several places score the same.
minMaxLoc(mat) ==
    CHOOSE p \in DOMAIN mat :
        \A q \in DOMAIN mat :
            /\ ~Higher(mat[q], mat[p])
            /\ (~Higher(mat[p], mat[q]) /\ q # p) =>
                   (p[1] < q[1] \/ (p[1] = q[1] /\ p[2] < q[2]))

\* The place (y_max, x_max) the correlation finds for a pair of pixel frames.
Locate(imgR, imgL) ==
    LET a == RoiLo(PixRows)
        b == RoiHi(PixRows)
        c == RoiLo(PixCols)
        d == RoiHi(PixCols)
        roiL == [r \in 0 .. b - a - 1 |-> [k \in 0 .. d - c - 1 |-> imgL[a + r][c + k]]]
    IN  minMaxLoc(matchTemplate(imgR, roiL, PixRows, PixCols, b - a, d - c))

\* Known shifts (sx, sy) of the right pixel frame against the left one.
PixelShifts == { << 0, 5 >>, << 1, -3 >> }

PixelLoc == [sh \in PixelShifts |-> Locate(RightFrame(sh[1], sh[2]), LeftFrame)]

SolidLoc == Locate(SolidFrame, SolidFrame)

\* Displacements (dx, dy) the correlation of two full camera frames may
\* report; the place of the maximum lies inside the result matrix.
CameraShifts == { << 7, 100 >>, << 0, 101 >>, << -101, -3 >> }

\* Arguments (offset_x, offset_y) of a direct set_offset() call.
OffsetArgs == { << 7, 0 >>, << 100, -100 >>, << 101, 0 >>, << 0, -101 >> }

\* What one cams.read() / get_image() pair gives the tick: frames of unequal
\* shape, pixel frames with a known shift, solid frames, or camera frames of
\* which only the place of the correlation maximum is modelled.
FrameInputs ==
    { [same |-> FALSE, rows |-> ImgRows, cols |-> ImgCols, x_max |-> 0, y_max |-> 0,
       known |-> FALSE, shift |-> 0] }
    \cup
    { [same |-> TRUE, rows |-> PixRows, cols |-> PixCols,
       x_max |-> PixelLoc[sh][2], y_max |-> PixelLoc[sh][1],
       known |-> TRUE, shift |-> sh[2]] : sh \in PixelShifts }
    \cup
    { [same |-> TRUE, rows |-> PixRows, cols |-> PixCols,
       x_max |-> SolidLoc[2], y_max |-> SolidLoc[1], known |-> FALSE, shift |-> 0] }
    \cup
    { [same |-> TRUE, rows |-> ImgRows, cols |-> ImgCols,
       x_max |-> RoiLo(ImgCols) + sh[1], y_max |-> RoiLo(ImgRows) + sh[2],
       known |-> FALSE, shift |-> 0] :
         sh \in { d \in CameraShifts :
                    /\ RoiLo(ImgCols) + d[1] \in 0 .. ImgCols - (RoiHi(ImgCols) - RoiLo(ImgCols))
                    /\ RoiLo(ImgRows) + d[2] \in 0 .. ImgRows - (RoiHi(ImgRows) - RoiLo(ImgRows)) } }

\* detect_offset with the two indices of minMaxLoc swapped.
detect_offset_swapped(f) ==
    [x |-> f.y_max - f.cols \div 4, y |-> f.x_max - f.rows \div 4]

\* offset_y = y_max - row / 4; offset_x = x_max - col / 4  (integer division)
detect_offset(f) ==
    [x |-> f.x_max - f.cols \div 4, y |-> f.y_max - f.rows \div 4]

(***************************************************************************)
(* Offsets, zoom and the transform matrices                                *)
(***************************************************************************)

\* Zoom and scale factors are floats in the code; here they are fixed-point
\* numbers, ZoomUnit to the unit.
ZoomUnit == 10000

\* x_limit, y_limit = 100, 100
x_limit == 100
y_limit == 100

\* self.display_width, self.display_height = 1136, 640
DefaultWidth == 1136
DefaultHeight == 640

\* VideoThread.set_offset: the values are stored as they come.
set_offset_VT(x, y) == [x |-> x, y |-> y]

\* ProcessThread.set_offset: both offsets are zeroed when either is out of bound.
set_offset_PT(x, y) ==
    IF Abs(x) > x_limit \/ Abs(y) > y_limit
    THEN [x |-> 0, y |-> 0]
    ELSE [x |-> x, y |-> y]

set_offset(x, y) == IF impl = VT THEN set_offset_VT(x, y) ELSE set_offset_PT(x, y)

\* VideoThread.set_offset_matrix: [[1, 0, offset_x], [0, 1, offset_y]]
set_offset_matrix(ox, oy) == [tx |-> ox * ZoomUnit, ty |-> oy * ZoomUnit]

\* VideoThread.set_resize_matrix: one scale-and-centre matrix for both sides.
set_resize_matrix_VT(z, dw, dh) ==
    LET base_scale == (dh * ZoomUnit) \div ImgRows
        scale      == (base_scale * z) \div ZoomUnit
        tx         == ((dw \div 2) * ZoomUnit - ImgCols * scale) \div 2
        ty         == (dh * ZoomUnit - ImgRows * scale) \div 2
    IN  [sx |-> scale, sy |-> scale, tx |-> tx, ty |-> ty]

\* A set_resize_matrix that keeps the frame shape of the call before it.
set_resize_matrix_PT_kept_shape(z, ox, oy, dw, dh) ==
    LET shape      == IF builds[2].made THEN builds[2].shape ELSE img_shape
        base_scale == IF shape.rows * (dw \div 2) > dh * shape.cols
                      THEN (dh * ZoomUnit) \div shape.rows
                      ELSE ((dw \div 2) * ZoomUnit) \div shape.cols
        scale      == (base_scale * z) \div ZoomUnit
        tx         == ((dw \div 2) * ZoomUnit - shape.cols * scale) \div 2
        ty         == (dh * ZoomUnit - shape.rows * scale) \div 2
    IN  [R |-> [sx |-> scale, sy |-> scale, tx |-> tx, ty |-> ty],
         L |-> [sx |-> scale, sy |-> scale, tx |-> scale * ox + tx, ty |-> scale * oy + ty]]

\* A left matrix that adds the offset as it is, not scaled.
set_resize_matrix_PT_offset_unscaled(z, ox, oy, dw, dh) ==
    LET base_scale == IF img_shape.rows * (dw \div 2) > dh * img_shape.cols
                      THEN (dh * ZoomUnit) \div img_shape.rows
                      ELSE ((dw \div 2) * ZoomUnit) \div img_shape.cols
        scale      == (base_scale * z) \div ZoomUnit
        tx         == ((dw \div 2) * ZoomUnit - img_shape.cols * scale) \div 2
        ty         == (dh * ZoomUnit - img_shape.rows * scale) \div 2
    IN  [R |-> [sx |-> scale, sy |-> scale, tx |-> tx, ty |-> ty],
         L |-> [sx |-> scale, sy |-> scale, tx |-> ZoomUnit * ox + tx, ty |-> ZoomUnit * oy + ty]]

\* ProcessThread.set_resize_matrix: resize_matrix_R and resize_matrix_L.
set_resize_matrix_PT(z, ox, oy, dw, dh) ==
    LET base_scale == IF img_shape.rows * (dw \div 2) > dh * img_shape.cols
                      THEN (dh * ZoomUnit) \div img_shape.rows
                      ELSE ((dw \div 2) * ZoomUnit) \div img_shape.cols
        scale      == (base_scale * z) \div ZoomUnit
        tx         == ((dw \div 2) * ZoomUnit - img_shape.cols * scale) \div 2
        ty         == (dh * ZoomUnit - img_shape.rows * scale) \div 2
    IN  [R |-> [sx |-> scale, sy |-> scale, tx |-> tx, ty |-> ty],
         L |-> [sx |-> scale, sy |-> scale, tx |-> scale * ox + tx, ty |-> scale * oy + ty]]

\* The matrices after a set_resize_matrix() with these parameters.  Each
\* set_resize_matrix() also makes self.imgDisplay a new array (np.zeros).
MatR(z, ox, oy, dw, dh) ==
    IF impl = VT THEN set_resize_matrix_VT(z, dw, dh)
    ELSE set_resize_matrix_PT(z, ox, oy, dw, dh).R

MatL(z, ox, oy, dw, dh) ==
    IF impl = VT THEN set_resize_matrix_VT(z, dw, dh)
    ELSE set_resize_matrix_PT(z, ox, oy, dw, dh).L

\* cv2.warpAffine(img, M, ...) with a scale-and-translate matrix: where the
\* point p of img goes, in units of 1/ZoomUnit.
warpAffine(m, p) == [x |-> m.sx * p.x + m.tx, y |-> m.sy * p.y + m.ty]

\* cv2.warpAffine(self.imgL_0, self.offset_matrix, ...): step (1) of the
\* pipeline of VideoThread, a translation by whole pixels.
warpOffset(o, p) == [x |-> p.x + o.tx \div ZoomUnit, y |-> p.y + o.ty \div ZoomUnit]

\* Points of the source frame: two corners and a point inside.
PointSamples == { [x |-> 0, y |-> 0], [x |-> 10, y |-> 20],
                  [x |-> ImgCols - 1, y |-> ImgRows - 1] }

\* set_offset(x, y) as a step: the offsets, then the matrix that holds them
\* (VideoThread: set_offset_matrix; ProcessThread: set_resize_matrix).
WriteOffset(new) ==
    /\ offset_x' = new.x
    /\ offset_y' = new.y
    /\ IF impl = VT
       THEN /\ offset_matrix' = set_offset_matrix(new.x, new.y)
            /\ UNCHANGED << resize_matrix_R, resize_matrix_L, bufPublished >>
       ELSE /\ resize_matrix_R' = MatR(zoom, new.x, new.y, display_width, display_height)
            /\ resize_matrix_L' = MatL(zoom, new.x, new.y, display_width, display_height)
            /\ bufPublished' = FALSE
            /\ UNCHANGED offset_matrix

(***************************************************************************)
(* zoom_in(), zoom_out()                                                   *)
(***************************************************************************)

\* self.zoom * 1.01 and self.zoom / 1.01, rounded to the nearest unit
ZoomTimes(z) == (z * 101 + 50) \div 100
ZoomOver(z) == (z * 100 + 50) \div 101

\* A test of the zoom held instead of the zoom computed.
zoom_in_allowed_stale(z) == z < 2 * ZoomUnit

\* if self.zoom * 1.01 < 2.0
zoom_in_allowed(z) == ZoomTimes(z) < 2 * ZoomUnit

\* if self.zoom / 1.01 > 0.5
zoom_out_allowed(z) == 2 * ZoomOver(z) > ZoomUnit

SetZoom(z) ==
    /\ zoom' = z
    /\ resize_matrix_R' = MatR(z, offset_x, offset_y, display_width, display_height)
    /\ resize_matrix_L' = MatL(z, offset_x, offset_y, display_width, display_height)
    /\ bufPublished' = FALSE

zoom_in ==
    /\ pcCmd = "idle"
    /\ IF zoom_in_allowed(zoom)
       THEN SetZoom(ZoomTimes(zoom))
       ELSE UNCHANGED << zoom, resize_matrix_R, resize_matrix_L, bufPublished >>
    /\ hist' = [op |-> "zoom_in", zoom |-> zoom, R |-> resize_matrix_R, L |-> resize_matrix_L]
    /\ UNCHANGED << impl, miscVars, shapeVars, camVars, xfVars, offsetWriters, tuneVars, depthVars, bufMutated, ctlVars, offset_x, offset_y, display_width, display_height,
                    offset_matrix, pcAlign, al, co >>

zoom_out ==
    /\ pcCmd = "idle"
    /\ IF zoom_out_allowed(zoom)
       THEN SetZoom(ZoomOver(zoom))
       ELSE UNCHANGED << zoom, resize_matrix_R, resize_matrix_L, bufPublished >>
    /\ hist' = [op |-> "zoom_out", zoom |-> zoom, R |-> resize_matrix_R, L |-> resize_matrix_L]
    /\ UNCHANGED << impl, miscVars, shapeVars, camVars, xfVars, offsetWriters, tuneVars, depthVars, bufMutated, ctlVars, offset_x, offset_y, display_width, display_height,
                    offset_matrix, pcAlign, al, co >>

(***************************************************************************)
(* The alignment tick: AlignThread.run -> auto_offset(setting_x_offset)    *)
(***************************************************************************)

NoTick == [x |-> 0, y |-> 0, y_max |-> 0, rows |-> 0, known |-> FALSE, shift |-> 0]

Measured(f) ==
    [x |-> detect_offset(f).x, y |-> detect_offset(f).y,
     y_max |-> f.y_max, rows |-> f.rows, known |-> f.known, shift |-> f.shift]

\* The tick of the pipeline in process_thread.py keeps the horizontal offset
\* unless horizontal correction is enabled ...
tick_x_PT(measured, current, setting_x_offset) ==
    IF setting_x_offset THEN measured ELSE current

\* ... and writes the offsets back through ProcessThread.set_offset.
tick_write_PT(x, y) == set_offset_PT(x, y)

\* if not setting_x_offset: offset_x = self.offset_x
auto_offset_x(measured, current, setting_x_offset) ==
    IF ~setting_x_offset THEN current ELSE measured

TickX(measured, current, setting_x_offset) ==
    IF impl = VT THEN auto_offset_x(measured, current, setting_x_offset)
    ELSE tick_x_PT(measured, current, setting_x_offset)

TickWrite(x, y) == IF impl = VT THEN set_offset_VT(x, y) ELSE tick_write_PT(x, y)

\* if not offset_x == self.offset_x or not offset_y == self.offset_y:
\*     self.set_offset(offset_x, offset_y)
ApplyTick(t) ==
    IF t.x # offset_x \/ t.y # offset_y
    THEN WriteOffset(TickWrite(t.x, t.y))
    ELSE UNCHANGED << offset_x, offset_y, offset_matrix,
                      resize_matrix_R, resize_matrix_L, bufPublished >>

\* The alignment thread reads the two frames and correlates them; frames of
\* unequal shape end the tick.
align_read ==
    /\ pcAlign = "idle"
    /\ \E f \in FrameInputs :
          IF f.same
          THEN /\ al' = Measured(f)
               /\ pcAlign' = "pick"
          ELSE UNCHANGED << al, pcAlign >>
    /\ UNCHANGED << impl, miscVars, shapeVars, camVars, xfVars, offsetWriters, tuneVars, depthVars, bufVars, ctlVars, offset_x, offset_y, zoom, display_width,
                    display_height, resize_matrix_R, resize_matrix_L,
                    offset_matrix, co, hist >>

\* setting_x_offset = False: the tick takes the horizontal offset that is set.
align_pick ==
    /\ pcAlign = "pick"
    /\ al' = [al EXCEPT !.x = TickX(al.x, offset_x, FALSE)]
    /\ pcAlign' = "apply"
    /\ UNCHANGED << impl, miscVars, shapeVars, camVars, xfVars, offsetWriters, tuneVars, depthVars, bufVars, ctlVars, offset_x, offset_y, zoom, display_width,
                    display_height, resize_matrix_R, resize_matrix_L,
                    offset_matrix, co, hist >>

align_apply ==
    /\ pcAlign = "apply"
    /\ ApplyTick(al)
    /\ offsetWriters' = IF al.x # offset_x \/ al.y # offset_y
                        THEN offsetWriters \cup { "align" } ELSE offsetWriters
    /\ pcAlign' = "sleep"
    /\ UNCHANGED << impl, miscVars, shapeVars, camVars, xfVars, tuneVars, depthVars, bufMutated, ctlVars, zoom, display_width, display_height, al, co, hist >>

\* time.sleep(1), then the next tick
align_sleep ==
    /\ pcAlign = "sleep"
    /\ pcAlign' = "idle"
    /\ al' = NoTick
    /\ UNCHANGED << impl, miscVars, shapeVars, camVars, xfVars, offsetWriters, tuneVars, depthVars, bufVars, ctlVars, offset_x, offset_y, zoom, display_width,
                    display_height, resize_matrix_R, resize_matrix_L,
                    offset_matrix, co, hist >>

\* WinduCore.auto_offset(): the coordinator runs auto_offset(setting_x_offset=True).
cmd_auto_read ==
    /\ pcCmd = "idle"
    /\ \E f \in FrameInputs :
          IF f.same
          THEN /\ co' = [Measured(f) EXCEPT !.x = TickX(@, offset_x, TRUE)]
               /\ pcCmd' = "auto_apply"
          ELSE UNCHANGED << co, pcCmd >>
    /\ UNCHANGED << impl, miscVars, shapeVars, camVars, xfVars, pubsPending, offsetWriters, tuneVars, depthVars, bufVars, stopping, pausing, isPaused, recording, pcRun, writer,
                    artifact, camsOpen, out, pauseHeld, stopReturned, stoppedFrom,
                    lastCmd, recSeen, lateWrite, stoppedRec,
                    offset_x, offset_y, zoom, display_width,
                    display_height, resize_matrix_R, resize_matrix_L,
                    offset_matrix, pcAlign, al, hist >>

cmd_auto_apply ==
    /\ pcCmd = "auto_apply"
    /\ ApplyTick(co)
    /\ offsetWriters' = IF co.x # offset_x \/ co.y # offset_y
                        THEN offsetWriters \cup { "coordinator" } ELSE offsetWriters
    /\ pcCmd' = "idle"
    /\ co' = NoTick
    /\ UNCHANGED << impl, miscVars, shapeVars, camVars, xfVars, pubsPending, tuneVars, depthVars, bufMutated, stopping, pausing, isPaused, recording, pcRun, writer,
                    artifact, camsOpen, out, pauseHeld, stopReturned, stoppedFrom,
                    lastCmd, recSeen, lateWrite, stoppedRec,
                    zoom, display_width, display_height, pcAlign, al, hist >>

\* set_offset(offset_x, offset_y) called directly by the coordinator.
set_offset_call ==
    /\ pcCmd = "idle"
    /\ \E a \in OffsetArgs : WriteOffset(set_offset(a[1], a[2]))
    /\ offsetWriters' = offsetWriters \cup { "coordinator" }
    /\ UNCHANGED << impl, miscVars, shapeVars, camVars, xfVars, tuneVars, depthVars, bufMutated, ctlVars, zoom, display_width, display_height,
                    pcAlign, al, co, hist >>

(***************************************************************************)
(* CamTuneThread: the tuning tick (main) on the camera of cap_thread       *)
(***************************************************************************)

\* parameters/auto_cam.json: goal, tolerance, learn_rate = LearnNum / LearnDen
goal == 128
tolerance == 5
LearnNum == 1
LearnDen == 2

\* parameters/auto_cam.json: the legal ranges of gain and exposure
gain_min == 0
gain_max == 40
exposure_min == -3
exposure_max == -1

\* np.average(img) is a float: means are counted in units of 1 / MeanUnit.
MeanUnit == 2

\* The means a tick may sample: 60, 121, 123, 125.5, 133, 135 and 250.
MeanSamples ==
    { 60 * MeanUnit, 121 * MeanUnit, 123 * MeanUnit, 125 * MeanUnit + 1,
      133 * MeanUnit, 135 * MeanUnit, 250 * MeanUnit }

\* Values the camera's gain and exposure may be given from outside the tick.
GainSamples == { gain_min - 2, gain_min, gain_min + 10, gain_max, gain_max + 5 }
ExposureSamples == { exposure_min - 2, exposure_min, exposure_max, exposure_max + 2 }

\* int(n / d): the fraction is cut off, towards zero
IntOf(n, d) == IF n >= 0 THEN n \div d ELSE -((-n) \div d)

\* round(n / d): to the nearest integer, a half away from zero
RoundOf(n, d) == IF n >= 0 THEN (2 * n + d) \div (2 * d) ELSE -((2 * (-n) + d) \div (2 * d))

\* diff = self.goal - mean, in units of 1 / MeanUnit
Diff(mean) == goal * MeanUnit - mean

OutOfTolerance(diff) == Abs(diff) > tolerance * MeanUnit

\* The camera behind cap_thread: one parameter is set when the device takes
\* the value (ret), and keeps its value when it does not.
set_one_cam_parm(cam, name, value, ret) ==
    IF ret THEN [cam EXCEPT ![name] = value] ELSE cam

\* set_cam(name, value): the write, and update_gui(name) when ret is true.
set_cam(t, cam, name, value, ret) ==
    [t EXCEPT !.writes = Append(@, [name |-> name, value |-> value, ret |-> ret,
                                    was |-> cam[name]]),
              !.updates = IF ret THEN @ + 1 ELSE @]

\* The set_cam() calls of req, one after the other; rets[i] is what the i-th
\* write returns.  The result is the camera and the tick's record.
RECURSIVE DoWrites(_, _, _, _)
DoWrites(t, cam, req, rets) ==
    IF req = << >> THEN [cam |-> cam, tk |-> t]
    ELSE DoWrites(set_cam(t, cam, Head(req).name, Head(req).value, Head(rets)),
                  set_one_cam_parm(cam, Head(req).name, Head(req).value, Head(rets)),
                  Tail(req), Tail(rets))

Rets(req) == [1 .. Len(req) -> BOOLEAN]

Cam == [gain |-> gain, exposure |-> exposure]

\* check_gain / check_exposure with the bounds swapped.
check_far_bound(name, value, lo, hi) ==
    IF value < lo THEN << [name |-> name, value |-> hi] >>
    ELSE IF value > hi THEN << [name |-> name, value |-> lo] >>
    ELSE << >>

\* check_gain / check_exposure: the set_cam() call for a value out of range
check(name, value, lo, hi) ==
    IF value < lo THEN << [name |-> name, value |-> lo] >>
    ELSE IF value > hi THEN << [name |-> name, value |-> hi] >>
    ELSE << >>

\* The tolerance and the learn rate (num / den) as __init__parameters loads
\* them, and the values this model gives them elsewhere.
DefaultParms == [tolerance |-> tolerance, num |-> LearnNum, den |-> LearnDen]

\* The gain step without its + 1 / - 1, for any tolerance and learn rate.
gain_step_no_unit(g, diff, p) ==
    IF diff > p.tolerance * MeanUnit
    THEN [act |-> TRUE, gain |-> g + IntOf(diff * p.num, MeanUnit * p.den)]
    ELSE IF diff < -1 * p.tolerance * MeanUnit
    THEN [act |-> TRUE, gain |-> g + IntOf(diff * p.num, MeanUnit * p.den)]
    ELSE [act |-> FALSE, gain |-> g]

\* if diff > self.tolerance: gain += (int(diff * self.learn_rate) + 1)
\* elif diff < (-1 * self.tolerance): gain += (int(diff * self.learn_rate) - 1)
\* else: return
gain_step(g, diff, p) ==
    IF diff > p.tolerance * MeanUnit
    THEN [act |-> TRUE, gain |-> g + IntOf(diff * p.num, MeanUnit * p.den) + 1]
    ELSE IF diff < -1 * p.tolerance * MeanUnit
    THEN [act |-> TRUE, gain |-> g + IntOf(diff * p.num, MeanUnit * p.den) - 1]
    ELSE [act |-> FALSE, gain |-> g]

\* The gain test with >= in place of >.
adjust_gain_at_tolerance(g, diff) ==
    IF diff >= tolerance * MeanUnit
    THEN [act |-> TRUE, gain |-> g + IntOf(diff * LearnNum, MeanUnit * LearnDen) + 1]
    ELSE IF diff <= -1 * tolerance * MeanUnit
    THEN [act |-> TRUE, gain |-> g + IntOf(diff * LearnNum, MeanUnit * LearnDen) - 1]
    ELSE [act |-> FALSE, gain |-> g]

\* The gain step without its + 1 / - 1.
adjust_gain_no_unit(g, diff) ==
    IF diff > tolerance * MeanUnit
    THEN [act |-> TRUE, gain |-> g + IntOf(diff * LearnNum, MeanUnit * LearnDen)]
    ELSE IF diff < -1 * tolerance * MeanUnit
    THEN [act |-> TRUE, gain |-> g + IntOf(diff * LearnNum, MeanUnit * LearnDen)]
    ELSE [act |-> FALSE, gain |-> g]

\* Lines 60-68 with the tolerance and the learn rate of this model.
adjust_gain(g, diff) == gain_step(g, diff, DefaultParms)

\* The exposure step taken without the test of its range.
apply_gain_unchecked_exposure(g, e) ==
    IF g > gain_max
    THEN << [name |-> "exposure", value |-> e - 1], [name |-> "gain", value |-> gain_min] >>
    ELSE IF g < gain_min
    THEN << [name |-> "exposure", value |-> e + 1], [name |-> "gain", value |-> gain_max] >>
    ELSE << [name |-> "gain", value |-> g] >>

\* The proposed gain written also when it is out of range.
apply_gain_unsaturated(g, e) == << [name |-> "gain", value |-> g] >>

\* Lines 70-88: the set_cam() calls for the proposed gain g and exposure e.
apply_gain(g, e) ==
    IF g > gain_max
    THEN IF e - 1 >= exposure_min
         THEN << [name |-> "exposure", value |-> e - 1], [name |-> "gain", value |-> gain_min] >>
         ELSE << >>
    ELSE IF g < gain_min
    THEN IF e + 1 <= exposure_max
         THEN << [name |-> "exposure", value |-> e + 1], [name |-> "gain", value |-> gain_max] >>
         ELSE << >>
    ELSE << [name |-> "gain", value |-> g] >>

NoTune ==
    [foundGain |-> 0, foundExposure |-> 0, gain |-> 0, exposure |-> 0,
     mean |-> goal * MeanUnit, proposed |-> 0, infos |-> 0, updates |-> 0,
     checks |-> 0, writes |-> << >>]

\* self.check_gain()
tune_check_gain ==
    /\ pcTune = "idle"
    /\ \E rets \in Rets(check("gain", gain, gain_min, gain_max)) :
          LET r == DoWrites([NoTune EXCEPT !.foundGain = gain], Cam,
                            check("gain", gain, gain_min, gain_max), rets)
          IN  /\ gain' = r.cam.gain
              /\ exposure' = r.cam.exposure
              /\ tk' = r.tk
    /\ pcTune' = "check_exposure"
    /\ UNCHANGED << impl, miscVars, shapeVars, camVars, xfVars, ctlVars, geomVars, bufVars, depthVars >>

\* self.check_exposure()
tune_check_exposure ==
    /\ pcTune = "check_exposure"
    /\ \E rets \in Rets(check("exposure", exposure, exposure_min, exposure_max)) :
          LET r == DoWrites([tk EXCEPT !.foundExposure = exposure], Cam,
                            check("exposure", exposure, exposure_min, exposure_max), rets)
          IN  /\ gain' = r.cam.gain
              /\ exposure' = r.cam.exposure
              /\ tk' = [r.tk EXCEPT !.checks = Len(r.tk.writes)]
    /\ pcTune' = "sample"
    /\ UNCHANGED << impl, miscVars, shapeVars, camVars, xfVars, ctlVars, geomVars, bufVars, depthVars >>

\* gain, exposure = get_one_cam_parm(...); mean = np.average(roi);
\* self.emit_info(mean); diff = self.goal - mean; time.sleep(...)
tune_sample ==
    /\ pcTune = "sample"
    /\ \E m \in MeanSamples :
          tk' = [tk EXCEPT !.gain = gain, !.exposure = exposure, !.mean = m,
                           !.infos = @ + 1]
    /\ pcTune' = "adjust"
    /\ UNCHANGED << impl, miscVars, shapeVars, camVars, xfVars, ctlVars, geomVars, bufVars, depthVars, gain, exposure >>

\* Lines 60-88: the gain step, or the exposure step when the gain is used up.
tune_adjust ==
    /\ pcTune = "adjust"
    /\ LET a   == adjust_gain(tk.gain, Diff(tk.mean))
           req == IF a.act THEN apply_gain(a.gain, tk.exposure) ELSE << >>
       IN  \E rets \in Rets(req) :
              LET r == DoWrites([tk EXCEPT !.proposed = a.gain], Cam, req, rets)
              IN  /\ gain' = r.cam.gain
                  /\ exposure' = r.cam.exposure
                  /\ tk' = r.tk
    /\ pcTune' = "done"
    /\ UNCHANGED << impl, miscVars, shapeVars, camVars, xfVars, ctlVars, geomVars, bufVars, depthVars >>

\* AbstractThread runs main() again.
tune_next ==
    /\ pcTune = "done"
    /\ pcTune' = "idle"
    /\ tk' = NoTune
    /\ UNCHANGED << impl, miscVars, shapeVars, camVars, xfVars, ctlVars, geomVars, bufVars, depthVars, gain, exposure >>

\* Between two ticks the camera is given a gain or an exposure by its user.
cam_parm_set ==
    /\ pcTune = "idle"
    /\ \/ \E g \in GainSamples : gain' = g /\ UNCHANGED exposure
       \/ \E e \in ExposureSamples : exposure' = e /\ UNCHANGED gain
    /\ UNCHANGED << impl, miscVars, shapeVars, camVars, xfVars, ctlVars, geomVars, bufVars, depthVars, pcTune, tk >>

\* Tolerances and learn rates parameters/auto_cam.json may hold: tolerance 0,
\* 1 or 5, learn rate 0.5 or 0.1.
ParmSamples ==
    { [tolerance |-> t, num |-> 1, den |-> d] : t \in { 0, 1, 5 }, d \in { 2, 10 } }

\* The means of the gain step on its own: those of a tick, and 126.5, 127,
\* 129, 130.
StepMeans ==
    MeanSamples \cup { 126 * MeanUnit + 1, 127 * MeanUnit, 129 * MeanUnit, 130 * MeanUnit }

\* __init__parameters: setattr(self, name, parms[name])
load_parameters ==
    /\ pcTune \in { "idle", "proposed" }
    /\ \E p \in ParmSamples : parms' = p
    /\ tk' = NoTune
    /\ pcTune' = "idle"
    /\ UNCHANGED << impl, ctlVars, geomVars, bufVars, depthVars, shapeVars,
                    camVars, xfVars, gain, exposure, alignStopping, newFields >>

\* Lines 44-68 on their own: the gain read, the mean sampled, the gain proposed.
propose_gain ==
    /\ pcTune \in { "idle", "proposed" }
    /\ \E g \in GainSamples, m \in StepMeans :
          tk' = [NoTune EXCEPT !.gain = g, !.mean = m,
                               !.proposed = gain_step(g, Diff(m), parms).gain]
    /\ pcTune' = "proposed"
    /\ UNCHANGED << impl, ctlVars, geomVars, bufVars, depthVars, shapeVars,
                    camVars, xfVars, gain, exposure, miscVars >>

TuneInit ==
    /\ gain = gain_min
    /\ exposure = exposure_max
    /\ pcTune = "idle"
    /\ tk = NoTune

(***************************************************************************)
(* apply_depth_parameters(parameters)                                      *)
(***************************************************************************)

\* Values a payload may carry for 'ndisparities' and for 'SADWindowSize'.
NdispSamples == { -16, 0, 16, 24, 32, 48, 64, 160 }
SADSamples == { -3, 3, 4, 5, 31, 255, 257, 641 }

\* The payloads: a value for one of the two names, or for both.
DepthPayloads ==
    { [k \in K |-> IF k = "ndisparities" THEN v[1] ELSE v[2]] :
        K \in { { "ndisparities" }, { "SADWindowSize" }, { "ndisparities", "SADWindowSize" } },
        v \in NdispSamples \X SADSamples }

\* Payloads that name other attributes of the pipeline object, and one
\* that names an attribute it does not have.
OtherPayloads ==
    { [k \in { "pausing" } |-> TRUE],
      [k \in { "zoom" } |-> 3 * ZoomUnit],
      [k \in { "display_width" } |-> 0],
      [k \in { "preset" } |-> 1] }

\* The attributes of the pipeline object that the payloads above name and
\* that __init__ has made.
KnownAttrs == { "ndisparities", "SADWindowSize", "pausing", "zoom", "display_width" }

\* setattr(self, name, value) for a payload that has the name
Attr(parameters, name, old) ==
    IF name \in DOMAIN parameters THEN parameters[name] ELSE old

\* for key, value in parameters.items(): setattr(self, key, value)
apply_depth_parameters ==
    /\ pcCmd = "idle"
    /\ \E parameters \in DepthPayloads \cup OtherPayloads :
          /\ ndisparities' = Attr(parameters, "ndisparities", ndisparities)
          /\ SADWindowSize' = Attr(parameters, "SADWindowSize", SADWindowSize)
          /\ pausing' = Attr(parameters, "pausing", pausing)
          /\ zoom' = Attr(parameters, "zoom", zoom)
          /\ display_width' = Attr(parameters, "display_width", display_width)
          /\ newFields' = newFields \cup (DOMAIN parameters \ KnownAttrs)
    /\ UNCHANGED << impl, parms, alignStopping, shapeVars, camVars, xfVars, tuneVars, bufVars,
                    stopping, isPaused, recording, pcRun, pcCmd, writer,
                    artifact, camsOpen, out, pauseHeld, stopReturned,
                    stoppedFrom, lastCmd, recSeen, lateWrite, stoppedRec,
                    pubsPending, offset_x, offset_y, display_height,
                    resize_matrix_R, resize_matrix_L, offset_matrix, pcAlign,
                    al, co, hist, offsetWriters >>

(***************************************************************************)
(* DualCamera: the two devices and read(), called by the loop thread       *)
(* (VideoThread.run) and by the alignment thread (auto_offset).  read()    *)
(* keeps its frames in the fields self.imgR and self.imgL, which all its   *)
(* callers share; every assignment to them is a step.                      *)
(***************************************************************************)

Callers == { "run", "align" }

Sides == { "R", "L" }

\* A frame: None, the blank image, or a device frame with the caller that
\* captured it and the number of times np.rot90() was applied to it.
NoFrame == [kind |-> "none", by |-> "-", rot |-> 0]
BlankFrame == [kind |-> "blank", by |-> "-", rot |-> 0]
DeviceFrame(c) == [kind |-> "frame", by |-> c, rot |-> 0]

\* __init__: cv2.VideoCapture(id); a device that did not open becomes None.
DualCamera_init ==
    /\ impl = VT
    /\ cams = [s \in Sides |-> "unopened"]
    /\ \E opened \in [Sides -> BOOLEAN] :
          cams' = [s \in Sides |-> IF opened[s] THEN "open" ELSE "absent"]
    /\ UNCHANGED << impl, miscVars, ctlVars, geomVars, tuneVars, bufVars, depthVars,
                    shapeVars, xfVars, camImg, pcRd, got >>

\* A caller enters read().
read_call(c) ==
    /\ cams # [s \in Sides |-> "unopened"]
    /\ pcRd[c] = "idle"
    /\ pcRd' = [pcRd EXCEPT ![c] = "R"]
    /\ UNCHANGED << impl, miscVars, ctlVars, geomVars, tuneVars, bufVars, depthVars,
                    shapeVars, xfVars, cams, camImg, got >>

\* _, self.imgX = self.camX.read(): the device hands back a frame, or
\* (False, None) when the read fails, as every read of a released device
\* does.  A camera that is None: the sleep, then self.imgX = self.imgX_blank.
read_capture(c, s) ==
    /\ pcRd[c] = s
    /\ IF cams[s] # "absent"
       THEN /\ \E ok \in (IF cams[s] = "open" THEN BOOLEAN ELSE { FALSE }) :
                  camImg' = [camImg EXCEPT ![s] = IF ok THEN DeviceFrame(c) ELSE NoFrame]
            /\ pcRd' = [pcRd EXCEPT ![c] = "rot" \o s]
       ELSE /\ camImg' = [camImg EXCEPT ![s] = BlankFrame]
            /\ pcRd' = [pcRd EXCEPT ![c] = IF s = "R" THEN "L" ELSE "retR"]
    /\ UNCHANGED << impl, miscVars, ctlVars, geomVars, tuneVars, bufVars, depthVars,
                    shapeVars, xfVars, cams, got >>

\* self.imgX = np.rot90(self.imgX, k): rotates what the field holds now;
\* np.rot90(None, k) raises ValueError, which nothing in read() or in its
\* callers catches.
read_rotate(c, s) ==
    /\ pcRd[c] = "rot" \o s
    /\ IF camImg[s].kind = "none"
       THEN /\ pcRd' = [pcRd EXCEPT ![c] = "raised"]
            /\ UNCHANGED camImg
       ELSE /\ camImg' = [camImg EXCEPT ![s].rot = Inc(@)]
            /\ pcRd' = [pcRd EXCEPT ![c] = IF s = "R" THEN "L" ELSE "retR"]
    /\ UNCHANGED << impl, miscVars, ctlVars, geomVars, tuneVars, bufVars, depthVars,
                    shapeVars, xfVars, cams, got >>

\* return (self.imgR, self.imgL): the two fields are loaded one after the
\* other.
read_return(c, s) ==
    /\ pcRd[c] = "ret" \o s
    /\ got' = [got EXCEPT ![c][s] = camImg[s]]
    /\ pcRd' = [pcRd EXCEPT ![c] = IF s = "R" THEN "retL" ELSE "idle"]
    /\ UNCHANGED << impl, miscVars, ctlVars, geomVars, tuneVars, bufVars, depthVars,
                    shapeVars, xfVars, cams, camImg >>

read ==
    \E c \in Callers :
        \/ read_call(c)
        \/ \E s \in Sides : read_capture(c, s)
        \/ \E s \in Sides : read_rotate(c, s)
        \/ \E s \in Sides : read_return(c, s)

\* AlignThread.run: while not self.stopping: auto_offset(...), whose first
\* statement is self.cams.read(); the sleep of one second follows the tick.
align_tick ==
    /\ impl = VT
    /\ ~alignStopping
    /\ read_call("align")

\* WinduCore.stop_video_thread: self.align_thread.stop() sets the flag and
\* returns; self.video_thread.stop() follows.
align_stop ==
    /\ impl = VT
    /\ pcCmd = "idle"
    /\ ~alignStopping
    /\ alignStopping' = TRUE
    /\ UNCHANGED << impl, ctlVars, geomVars, tuneVars, bufVars, depthVars,
                    shapeVars, camVars, xfVars, parms, newFields >>

CamInit ==
    /\ cams = [s \in Sides |-> "unopened"]
    /\ camImg = [s \in Sides |-> NoFrame]
    /\ pcRd = [c \in Callers |-> "idle"]
    /\ got = [c \in Callers |-> [s \in Sides |-> NoFrame]]


(***************************************************************************)
(* The coordinator thread: set_display_size(width, height)                 *)
(***************************************************************************)

\* The sizes the window hands to set_display_size: (width, height).
SizeSamples == { << 1136, 640 >>, << 1137, 640 >>, << 800, 600 >> }

\* self.pause(): self.pausing = True
sds_pause_set ==
    /\ pcCmd = "idle"
    /\ pausing' = TRUE
    /\ pubsPending' = 0
    /\ pcCmd' = "sds_pause_wait"
    /\ out' = << >>
    /\ UNCHANGED << impl, miscVars, shapeVars, camVars, xfVars, tuneVars, depthVars, bufVars, geomVars,
                    stoppedRec, stopping, isPaused, recording, pcRun, writer,
                    artifact, camsOpen, pauseHeld, stopReturned, stoppedFrom,
                    lastCmd, recSeen, lateWrite >>

\* self.pause(): while not self.isPaused: sleep
sds_pause_wait ==
    /\ pcCmd = "sds_pause_wait"
    /\ isPaused
    /\ pcCmd' = "sds_size"
    /\ pauseHeld' = TRUE
    /\ out' = << >>
    /\ UNCHANGED << impl, miscVars, shapeVars, camVars, xfVars, pubsPending, tuneVars, depthVars, bufVars,
                    geomVars, stoppedRec, stopping, pausing, isPaused, recording,
                    pcRun, writer, artifact, camsOpen, stopReturned, stoppedFrom,
                    lastCmd, recSeen, lateWrite >>

\* self.display_width, self.display_height = width, height
sds_size ==
    /\ pcCmd = "sds_size"
    /\ \E d \in SizeSamples :
          /\ display_width' = d[1]
          /\ display_height' = d[2]
    /\ pcCmd' = "sds_rebuild"
    /\ out' = << >>
    /\ UNCHANGED << impl, miscVars, shapeVars, camVars, xfVars, pubsPending, tuneVars, depthVars, bufVars,
                    stoppedRec, stopping, pausing, isPaused, recording, pcRun,
                    writer, artifact, camsOpen, pauseHeld, stopReturned,
                    stoppedFrom, lastCmd, recSeen, lateWrite,
                    offset_x, offset_y, zoom, resize_matrix_R, resize_matrix_L,
                    offset_matrix, pcAlign, al, co, hist, offsetWriters >>

\* self.set_resize_matrix(): the matrices, then new display buffers
sds_rebuild ==
    /\ pcCmd = "sds_rebuild"
    /\ resize_matrix_R' = MatR(zoom, offset_x, offset_y, display_width, display_height)
    /\ resize_matrix_L' = MatL(zoom, offset_x, offset_y, display_width, display_height)
    /\ bufPublished' = FALSE
    /\ pcCmd' = "sds_resume_set"
    /\ out' = << >>
    /\ UNCHANGED << impl, miscVars, shapeVars, camVars, xfVars, pubsPending, tuneVars, depthVars, bufMutated,
                    stoppedRec, stopping, pausing, isPaused, recording, pcRun,
                    writer, artifact, camsOpen, pauseHeld, stopReturned,
                    stoppedFrom, lastCmd, recSeen, lateWrite,
                    offset_x, offset_y, zoom, display_width, display_height,
                    offset_matrix, pcAlign, al, co, hist, offsetWriters >>

\* self.resume(): self.pausing = False
sds_resume_set ==
    /\ pcCmd = "sds_resume_set"
    /\ pausing' = FALSE
    /\ pauseHeld' = FALSE
    /\ pcCmd' = "sds_resume_wait"
    /\ out' = << >>
    /\ UNCHANGED << impl, miscVars, shapeVars, camVars, xfVars, pubsPending, tuneVars, depthVars, bufVars,
                    geomVars, stoppedRec, stopping, isPaused, recording, pcRun,
                    writer, artifact, camsOpen, stopReturned, stoppedFrom,
                    lastCmd, recSeen, lateWrite >>

\* self.resume(): while self.isPaused: sleep; set_display_size returns
sds_resume_wait ==
    /\ pcCmd = "sds_resume_wait"
    /\ ~isPaused
    /\ pcCmd' = "idle"
    /\ lastCmd' = "set_display_size"
    /\ out' = << >>
    /\ UNCHANGED << impl, miscVars, shapeVars, camVars, xfVars, pubsPending, tuneVars, depthVars, bufVars,
                    geomVars, stoppedRec, stopping, pausing, isPaused, recording,
                    pcRun, writer, artifact, camsOpen, pauseHeld, stopReturned,
                    stoppedFrom, recSeen, lateWrite >>

set_display_size ==
    \/ sds_pause_set
    \/ sds_pause_wait
    \/ sds_size
    \/ sds_rebuild
    \/ sds_resume_set
    \/ sds_resume_wait


(***************************************************************************)
(* set_resize_matrix() called again and again: what its matrices depend on *)
(***************************************************************************)

\* Shapes of the frame get_image() hands to set_resize_matrix: the rotated
\* camera frame, and a frame that lies on its side.
ShapeSamples == { [rows |-> ImgRows, cols |-> ImgCols],
                  [rows |-> ImgCols, cols |-> ImgRows] }

\* The capture thread comes to hold a frame of another shape.
get_image ==
    /\ \E sh \in ShapeSamples \ { img_shape } : img_shape' = sh
    /\ UNCHANGED << impl, miscVars, ctlVars, geomVars, tuneVars, bufVars, depthVars,
                    camVars, xfVars, builds >>

TransformParameters == << offset_x, offset_y, zoom, display_width, display_height >>

\* One more set_resize_matrix() on the parameters as they are.  builds keeps
\* this call and the one before it: parameters, frame shape, matrices.
set_resize_matrix ==
    /\ pcCmd = "idle"
    /\ resize_matrix_R' = MatR(zoom, offset_x, offset_y, display_width, display_height)
    /\ resize_matrix_L' = MatL(zoom, offset_x, offset_y, display_width, display_height)
    /\ bufPublished' = FALSE
    /\ builds' = << builds[2],
                    [made |-> TRUE, parms |-> TransformParameters, shape |-> img_shape,
                     R |-> MatR(zoom, offset_x, offset_y, display_width, display_height),
                     L |-> MatL(zoom, offset_x, offset_y, display_width, display_height)] >>
    /\ UNCHANGED << impl, miscVars, ctlVars, tuneVars, depthVars, camVars, xfVars,
                    bufMutated, img_shape, offset_x, offset_y, zoom,
                    display_width, display_height, offset_matrix, pcAlign, al,
                    co, hist, offsetWriters >>

NoBuild == [made |-> FALSE, parms |-> << 0, 0, 0, 0, 0 >>,
            shape |-> [rows |-> 0, cols |-> 0],
            R |-> [sx |-> 0, sy |-> 0, tx |-> 0, ty |-> 0],
            L |-> [sx |-> 0, sy |-> 0, tx |-> 0, ty |-> 0]]

ShapeInit ==
    /\ img_shape = [rows |-> ImgRows, cols |-> ImgCols]
    /\ builds = << NoBuild, NoBuild >>

(***************************************************************************)
(* One set_resize_matrix() against one iteration of the loop, assignment   *)
(* by assignment.  Every call of set_resize_matrix() has a number; xfVer    *)
(* says which call wrote the right matrix, the left matrix and the display *)
(* buffers last, xfUsed which ones the iteration of the loop took.         *)
(***************************************************************************)

\* Calls of set_resize_matrix() in one run of the model.
MaxRebuilds == 3

\* The threads that call set_offset, zoom_in and zoom_out.
XfCallers == { "coordinator", "align" }

\* set_offset() / zoom_in() / zoom_out() reach set_resize_matrix().
xf_call(c) ==
    /\ pcXf[c].pc = "idle"
    /\ xfGen < MaxRebuilds
    /\ xfGen' = xfGen + 1
    /\ pcXf' = [pcXf EXCEPT ![c] = [pc |-> "R", gen |-> xfGen + 1]]
    /\ UNCHANGED << impl, miscVars, ctlVars, geomVars, tuneVars, bufVars, depthVars,
                    shapeVars, camVars, xfVer, xfUsed, pcIt >>

\* self.resize_matrix_R = np.float32(...); VideoThread has the one matrix
\* self.resize_matrix for both sides.
xf_write_R(c) ==
    /\ pcXf[c].pc = "R"
    /\ xfVer' = IF impl = VT
                THEN [xfVer EXCEPT !.R = pcXf[c].gen, !.L = pcXf[c].gen]
                ELSE [xfVer EXCEPT !.R = pcXf[c].gen]
    /\ pcXf' = [pcXf EXCEPT ![c].pc = IF impl = VT THEN "buf" ELSE "L"]
    /\ UNCHANGED << impl, miscVars, ctlVars, geomVars, tuneVars, bufVars, depthVars,
                    shapeVars, camVars, xfUsed, xfGen, pcIt >>

\* self.resize_matrix_L = np.float32(...)
xf_write_L(c) ==
    /\ pcXf[c].pc = "L"
    /\ xfVer' = [xfVer EXCEPT !.L = pcXf[c].gen]
    /\ pcXf' = [pcXf EXCEPT ![c].pc = "buf"]
    /\ UNCHANGED << impl, miscVars, ctlVars, geomVars, tuneVars, bufVars, depthVars,
                    shapeVars, camVars, xfUsed, xfGen, pcIt >>

\* self.imgR_proc, self.imgL_proc, self.imgDisplay = np.zeros(...)
xf_write_buf(c) ==
    /\ pcXf[c].pc = "buf"
    /\ xfVer' = [xfVer EXCEPT !.buf = pcXf[c].gen]
    /\ pcXf' = [pcXf EXCEPT ![c].pc = "idle"]
    /\ UNCHANGED << impl, miscVars, ctlVars, geomVars, tuneVars, bufVars, depthVars,
                    shapeVars, camVars, xfUsed, xfGen, pcIt >>

\* cv2.warpAffine(self.imgR_0, self.resize_matrix_R, (cols, rows))
it_warp_R ==
    /\ pcIt = "R"
    /\ xfUsed' = [xfUsed EXCEPT !.R = xfVer.R]
    /\ pcIt' = "L"
    /\ UNCHANGED << impl, miscVars, ctlVars, geomVars, tuneVars, bufVars, depthVars,
                    shapeVars, camVars, xfVer, xfGen, pcXf >>

\* cv2.warpAffine(self.imgL_0, self.resize_matrix_L, (cols, rows))
it_warp_L ==
    /\ pcIt = "L"
    /\ xfUsed' = [xfUsed EXCEPT !.L = xfVer.L]
    /\ pcIt' = "buf"
    /\ UNCHANGED << impl, miscVars, ctlVars, geomVars, tuneVars, bufVars, depthVars,
                    shapeVars, camVars, xfVer, xfGen, pcXf >>

\* self.imgDisplay[:, 0:(w/2), :] = ...; self.imgDisplay[:, (w/2):w, :] = ...
it_combine ==
    /\ pcIt = "buf"
    /\ xfUsed' = [xfUsed EXCEPT !.buf = xfVer.buf]
    /\ pcIt' = "emit"
    /\ UNCHANGED << impl, miscVars, ctlVars, geomVars, tuneVars, bufVars, depthVars,
                    shapeVars, camVars, xfVer, xfGen, pcXf >>

\* emit_signal('display_image', self.imgDisplay), and the next iteration
it_emit ==
    /\ pcIt = "emit"
    /\ pcIt' = "R"
    /\ UNCHANGED << impl, miscVars, ctlVars, geomVars, tuneVars, bufVars, depthVars,
                    shapeVars, camVars, xfVer, xfUsed, xfGen, pcXf >>

XfInit ==
    /\ xfVer = [R |-> 0, L |-> 0, buf |-> 0]
    /\ xfUsed = [R |-> 0, L |-> 0, buf |-> 0]
    /\ xfGen = 0
    /\ pcXf = [c \in XfCallers |-> [pc |-> "idle", gen |-> 0]]
    /\ pcIt = "R"


GeomInit ==
    /\ offset_x = 0
    /\ offset_y = 0
    /\ zoom = ZoomUnit
    /\ display_width = DefaultWidth
    /\ display_height = DefaultHeight
    /\ resize_matrix_R = MatR(ZoomUnit, 0, 0, DefaultWidth, DefaultHeight)
    /\ resize_matrix_L = MatL(ZoomUnit, 0, 0, DefaultWidth, DefaultHeight)
    /\ offset_matrix = set_offset_matrix(0, 0)
    /\ pcAlign = "idle"
    /\ al = NoTick
    /\ co = NoTick
    /\ offsetWriters = { }
    /\ hist = [op |-> "init", zoom |-> ZoomUnit,
               R |-> MatR(ZoomUnit, 0, 0, DefaultWidth, DefaultHeight),
               L |-> MatL(ZoomUnit, 0, 0, DefaultWidth, DefaultHeight)]

Init ==
    /\ impl \in { VT, PT }
    /\ stopping = FALSE
    /\ pausing = FALSE
    /\ isPaused = FALSE
    /\ recording = FALSE
    /\ pcRun = "while"
    /\ pcCmd = "idle"
    /\ writer = NoWriter
    /\ artifact = "absent"
    /\ camsOpen = (impl = VT)
    /\ out = << >>
    /\ pauseHeld = FALSE
    /\ stopReturned = FALSE
    /\ stoppedFrom = "none"
    /\ lastCmd = "none"
    /\ recSeen = 0
    /\ lateWrite = FALSE
    /\ stoppedRec = FALSE
    /\ pubsPending = 0
    /\ ShapeInit
    /\ GeomInit
    /\ TuneInit
    /\ bufPublished = FALSE
    /\ bufMutated = FALSE
    /\ CamInit
    /\ XfInit
    /\ ndisparities = 32
    /\ SADWindowSize = 31
    /\ parms = DefaultParms
    /\ alignStopping = FALSE
    /\ newFields = { }

Next ==
    \/ run
    \/ pause_set
    \/ pause_wait
    \/ resume_set
    \/ resume_wait
    \/ toggle_test
    \/ toggle_open
    \/ toggle_on
    \/ toggle_release
    \/ stop_test
    \/ stop_release
    \/ stop_set

Spec == Init /\ [][Next]_vars

\* The loop thread is a thread of its own and is scheduled again and again;
\* a stop() that has begun runs to its end.
FairSpec ==
    /\ Init
    /\ [][Next]_vars
    /\ WF_vars(run)
    /\ WF_vars(stop_release \/ stop_set)

\* The alignment thread beside the coordinator's offset commands.
AlignNext ==
    \/ align_read
    \/ align_pick
    \/ align_apply
    \/ align_sleep
    \/ cmd_auto_read
    \/ cmd_auto_apply
    \/ set_offset_call

AlignSpec == Init /\ [][AlignNext]_vars

\* The zoom commands.
ZoomNext ==
    \/ zoom_in
    \/ zoom_out

ZoomSpec == Init /\ [][ZoomNext]_vars

\* The tuning thread and the user of its camera.
TuneNext ==
    \/ tune_check_gain
    \/ tune_check_exposure
    \/ tune_sample
    \/ tune_adjust
    \/ tune_next
    \/ cam_parm_set

TuneSpec == Init /\ [][TuneNext]_vars

\* The gain step for the tolerances and learn rates the parameter file may hold.
StepNext ==
    \/ load_parameters
    \/ propose_gain

StepSpec == Init /\ [][StepNext]_vars

\* The depth parameters under the coordinator's command.
DepthNext == apply_depth_parameters

DepthSpec == Init /\ [][DepthNext]_vars

\* DualCamera and the two threads that read it.
CamNext ==
    \/ DualCamera_init
    \/ read

CamSpec == Init /\ [][CamNext]_vars

\* Shutdown: stop_video_thread stops the alignment thread, then the video
\* thread, whose loop closes the cameras; no pause and no recording.
StopNext ==
    \/ DualCamera_init
    \/ run_while
    \/ run_pause_test
    \/ run_clr_paused
    \/ run_read
    \/ run_compose
    \/ run_emit
    \/ run_rec_test
    \/ run_after
    \/ align_tick
    \/ \E s \in Sides : read_capture("align", s)
    \/ \E s \in Sides : read_rotate("align", s)
    \/ \E s \in Sides : read_return("align", s)
    \/ align_stop
    \/ (alignStopping /\ stop_test)
    \/ stop_set

StopSpec == Init /\ [][StopNext]_vars

\* The loop, the commands of the coordinator and set_display_size.
SizeNext ==
    \/ Next
    \/ set_display_size

SizeSpec == Init /\ [][SizeNext]_vars

\* set_resize_matrix() between changes of the parameters and of the frame;
\* the zoom stays within one step of 1.0.
RebuildNext ==
    \/ get_image
    \/ set_resize_matrix
    \/ set_offset_call
    \/ (zoom <= ZoomUnit /\ zoom_in)
    \/ (zoom >= ZoomUnit /\ zoom_out)

RebuildSpec == Init /\ [][RebuildNext]_vars

\* One iteration of the loop after another against the rebuilds of the
\* transform that two other threads start.
XfNext ==
    \/ \E c \in XfCallers : xf_call(c)
    \/ \E c \in XfCallers : xf_write_R(c)
    \/ \E c \in XfCallers : xf_write_L(c)
    \/ \E c \in XfCallers : xf_write_buf(c)
    \/ it_warp_R
    \/ it_warp_L
    \/ it_combine
    \/ it_emit

XfSpec == Init /\ [][XfNext]_vars

(***************************************************************************)
(* Properties                                                              *)
(***************************************************************************)

\* C1: once pause() has returned, and until resume() is called, no step of
\* the loop hands a 'display_image' to the mediator.
C1_PauseConvergence ==
    pauseHeld => "display_image" \notin Range(out)

\* pause() has returned and the loop has gone round its paused branch again.
C1_Witness ==
    /\ pauseHeld
    /\ lastCmd = "pause"
    /\ isPaused
    /\ pcRun = "set_paused"

\* C2: when stop() has returned, the camera devices and the video sink are
\* released.
C2_StopReleasesBeforeReturn ==
    (lastCmd = "stop" /\ pcCmd = "idle") =>
        (~camsOpen /\ writer.state # "open")

C4_FailedOpenLeavesRecordingOff ==
    /\ writer.state = "failed" =>
          /\ ~recording
          /\ "recording_starts" \notin Range(out)
          /\ writer.frames = 0
    /\ recording => writer.state = "open"

\* C5: after toggle_recording() on (the sink opened), loop iterations, and
\* toggle_recording() off, the sink was closed exactly once and holds as many
\* frames as the loop found recording active for.
C5_RecordingRoundTrip ==
    (lastCmd = "toggle_off" /\ pcCmd = "idle" /\ pcRun # "write"
        /\ writer.state = "released") =>
        (writer.closes = 1 /\ writer.frames = recSeen)

\* C6: when a stop() that was called while recording has returned, the sink
\* is closed, recording is false, no 'recording_ends' was published and the
\* partial file is gone.
C6_StopWhileRecording ==
    (lastCmd = "stop" /\ pcCmd = "idle" /\ stoppedRec) =>
        /\ writer.state # "open"
        /\ ~recording
        /\ "recording_ends" \notin Range(out)
        /\ artifact = "absent"

\* The offsets pass the sanity test of set_offset.
InBound(x, y) == Abs(x) <= x_limit /\ Abs(y) <= y_limit

\* C7: in every state reached through set_offset calls and alignment ticks
\* the two offsets lie within the sanity bound, |offset_x| <= 100 and
\* |offset_y| <= 100 (an out-of-bound value is never the stored offset).
C7_OffsetSanityBound == Abs(offset_x) <= x_limit /\ Abs(offset_y) <= y_limit

\* C8: a tick of the alignment thread (horizontal correction disabled) leaves
\* the horizontal offset as the tick found it, whatever the displacement it
\* measured.
C8_TickKeepsHorizontal ==
    [][(pcAlign = "apply" /\ pcAlign' = "sleep") => offset_x' = al.x]_vars

C10_ZoomBounded ==
    /\ zoom <= 2 * ZoomUnit
    /\ 2 * zoom >= ZoomUnit
    /\ (hist.op = "zoom_in" /\ ZoomTimes(hist.zoom) >= 2 * ZoomUnit) =>
           (zoom = hist.zoom /\ resize_matrix_R = hist.R /\ resize_matrix_L = hist.L)
    /\ (hist.op = "zoom_out" /\ 2 * ZoomOver(hist.zoom) <= ZoomUnit) =>
           (zoom = hist.zoom /\ resize_matrix_R = hist.R /\ resize_matrix_L = hist.L)

\* C10 witness: a zoom_in() at the upper bound was turned down, after zooming.
C10_Witness ==
    /\ hist.op = "zoom_in"
    /\ ZoomTimes(hist.zoom) >= 2 * ZoomUnit
    /\ zoom = hist.zoom
    /\ zoom > ZoomUnit
    /\ resize_matrix_R = hist.R
    /\ resize_matrix_R # MatR(ZoomUnit, offset_x, offset_y, display_width, display_height)

\* The set_cam() calls of a tick as (name, value), and those after the checks.
ReqSeq(ws) == [i \in DOMAIN ws |-> [name |-> ws[i].name, value |-> ws[i].value]]

AdjustWrites(t) == SubSeq(t.writes, t.checks + 1, Len(t.writes))

GainLegal(v) == gain_min <= v /\ v <= gain_max

ExposureLegal(v) == exposure_min <= v /\ v <= exposure_max

ExposureDown(t) ==
    << [name |-> "exposure", value |-> t.exposure - 1], [name |-> "gain", value |-> gain_min] >>

ExposureUp(t) ==
    << [name |-> "exposure", value |-> t.exposure + 1], [name |-> "gain", value |-> gain_max] >>

\* C11: a tick that found gain and exposure inside their ranges and sampled a
\* mean with |goal - mean| <= tolerance has set neither gain nor exposure and
\* has published no 'update_cam_parm'.
C11_WithinToleranceNoAction ==
    (/\ pcTune = "done"
     /\ GainLegal(tk.foundGain)
     /\ ExposureLegal(tk.foundExposure)
     /\ ~OutOfTolerance(Diff(tk.mean))) =>
        /\ tk.writes = << >>
        /\ tk.updates = 0
        /\ gain = tk.foundGain
        /\ exposure = tk.foundExposure

\* C11 witness: a finished tick whose diff is exactly the tolerance.
C11_Witness ==
    /\ pcTune = "done"
    /\ GainLegal(tk.foundGain)
    /\ ExposureLegal(tk.foundExposure)
    /\ Diff(tk.mean) = tolerance * MeanUnit
    /\ tk.infos = 1
    /\ tk.writes = << >>

\* C12: with |diff| > tolerance the proposed gain is
\* gain + round(diff * learn_rate) + 1 for diff > 0 and
\* gain + round(diff * learn_rate) - 1 for diff < 0.
C12_GainStepRounds ==
    (pcTune = "done" /\ OutOfTolerance(Diff(tk.mean))) =>
        tk.proposed = tk.gain + RoundOf(Diff(tk.mean) * LearnNum, MeanUnit * LearnDen)
                             + (IF Diff(tk.mean) > 0 THEN 1 ELSE -1)

\* C13 as stated: with goal 128, tolerance 5, learn_rate 0.5 and mean 60 the
\* tick writes gain + 35, and writes gain_max when gain + 35 exceeds gain_max.
C13_ScenarioClampsToMax ==
    (pcTune = "done" /\ tk.mean = 60 * MeanUnit) =>
        ReqSeq(AdjustWrites(tk)) =
            << [name |-> "gain",
                value |-> IF tk.gain + 35 > gain_max THEN gain_max ELSE tk.gain + 35] >>

\* C13 amended: with goal 128, tolerance 5, learn_rate 0.5 and mean 60 the
\* tick proposes gain + 35; a proposal within [gain_min, gain_max] is written
\* (the gain has grown by exactly 35 when the device took it); a proposal
\* above gain_max is not written: exposure goes down one step and gain to
\* gain_min if exposure - 1 >= exposure_min, and nothing is written otherwise.
C13_ScenarioStep ==
    (pcTune = "done" /\ tk.mean = 60 * MeanUnit) =>
        /\ tk.proposed = tk.gain + 35
        /\ GainLegal(tk.proposed) =>
              /\ ReqSeq(AdjustWrites(tk)) = << [name |-> "gain", value |-> tk.gain + 35] >>
              /\ tk.writes[Len(tk.writes)].ret => gain = tk.gain + 35
        /\ tk.proposed > gain_max =>
              ReqSeq(AdjustWrites(tk)) =
                  IF tk.exposure - 1 >= exposure_min THEN ExposureDown(tk) ELSE << >>

\* C13 witness: the tick found gain_min, sampled 60, and the gain is 35 higher.
C13_Witness ==
    /\ pcTune = "done"
    /\ tk.mean = 60 * MeanUnit
    /\ tk.gain = gain_min
    /\ gain = tk.gain + 35
    /\ tk.updates = 1

\* C14: a proposed gain above gain_max is not written: the tick sets exposure
\* one step down and gain to gain_min; a proposed gain below gain_min gives
\* exposure one step up and gain gain_max; when the step would take exposure
\* below exposure_min (above exposure_max) the tick writes nothing and both
\* parameters stay.  A write the device takes is the parameter's new value.
C14_Saturation ==
    (pcTune = "done" /\ OutOfTolerance(Diff(tk.mean))) =>
        /\ tk.proposed > gain_max =>
              IF tk.exposure - 1 >= exposure_min
              THEN /\ ReqSeq(AdjustWrites(tk)) = ExposureDown(tk)
                   /\ (\A i \in DOMAIN AdjustWrites(tk) : AdjustWrites(tk)[i].ret) =>
                          (exposure = tk.exposure - 1 /\ gain = gain_min)
              ELSE AdjustWrites(tk) = << >> /\ gain = tk.gain /\ exposure = tk.exposure
        /\ tk.proposed < gain_min =>
              IF tk.exposure + 1 <= exposure_max
              THEN /\ ReqSeq(AdjustWrites(tk)) = ExposureUp(tk)
                   /\ (\A i \in DOMAIN AdjustWrites(tk) : AdjustWrites(tk)[i].ret) =>
                          (exposure = tk.exposure + 1 /\ gain = gain_max)
              ELSE AdjustWrites(tk) = << >> /\ gain = tk.gain /\ exposure = tk.exposure

\* C14 witness: the proposal went over gain_max, and exposure is one step
\* lower with gain at gain_min.
C14_Witness ==
    /\ pcTune = "done"
    /\ tk.proposed > gain_max
    /\ tk.gain > gain_min
    /\ Len(AdjustWrites(tk)) = 2
    /\ \A i \in DOMAIN tk.writes : tk.writes[i].ret
    /\ exposure = tk.exposure - 1
    /\ gain = gain_min

C17_UpdateOnlyOnChange ==
    pcTune = "done" =>
        /\ tk.infos = 1
        /\ tk.updates = Cardinality({ i \in DOMAIN tk.writes :
                                        tk.writes[i].ret /\ tk.writes[i].value # tk.writes[i].was })

\* C18: an iteration that finds the two frames of unequal shape publishes
\* 'set_info_text' and nothing else, leaves the sink and the recording state
\* as they are, and is followed by the loop's tests of stopping and pausing.
C18_MismatchNotFatal ==
    [][(pcRun = "read" /\ pcRun' \notin { "read", "compose" }) =>
          /\ out' = << "set_info_text" >>
          /\ pcRun' = "while"
          /\ UNCHANGED << writer, recording, recSeen, bufPublished, bufMutated,
                          stopping, pausing, isPaused, camsOpen >>]_vars

\* C18 witness: a mismatch was reported while recording with a pause requested.
C18_Witness ==
    /\ pcRun = "while"
    /\ out = << "set_info_text" >>
    /\ writer.state = "open"
    /\ pausing

\* C19: the loop never writes into an array it has handed to the mediator.
C19_PublishedFrameImmutable == ~bufMutated

\* C20: ndisparities is a positive multiple of 16 and SADWindowSize is odd,
\* within [5, 255] and not larger than the image, in every state.
C20_DepthParametersLegal ==
    /\ ndisparities > 0
    /\ ndisparities % 16 = 0
    /\ SADWindowSize % 2 = 1
    /\ SADWindowSize >= 5
    /\ SADWindowSize <= 255
    /\ SADWindowSize <= ImgRows
    /\ SADWindowSize <= ImgCols

\* C21: read() never raises: no caller of DualCamera.read() ends in an
\* exception, whether a camera is absent or an opened camera fails to
\* deliver, and an absent camera's field holds the blank frame.
C21_ReadNeverRaises ==
    \A c \in Callers :
        /\ pcRd[c] # "raised"
        /\ \A s \in Sides :
              (cams[s] = "absent" /\ got[c][s] # NoFrame) => got[c][s] = BlankFrame

\* The loop thread is inside an iteration: past the pause test, before the
\* next test of the loop condition.
InIteration == pcRun \in { "clr_paused", "read", "compose", "emit", "rec", "write" }

\* The loop thread is alive and has not left its loop.
LoopRunning == pcRun \notin { "after", "exited", "raised" }

\* C22: set_display_size writes the display size, the matrices and the
\* buffers only while the loop has confirmed the pause and is in no
\* iteration, and the loop is running at the step at which it returns
\* (unless stop() was called before).
C22_PauseReconfigureResume ==
    [][/\ (pcCmd \in { "sds_size", "sds_rebuild" } /\ pcCmd' # pcCmd) =>
              (isPaused /\ ~InIteration)
       /\ (pcCmd = "sds_resume_wait" /\ pcCmd' = "idle" /\ ~stopping) =>
              LoopRunning']_vars

C24_NoHalfUpdatedTransform ==
    (pcIt = "emit") => (xfUsed.R = xfUsed.L /\ xfUsed.L = xfUsed.buf)

\* C25: the offsets are written by the alignment thread and by no other
\* thread.
C25_OffsetSingleWriter == offsetWriters \subseteq { "align" }

\* C26: between the step at which pause() sets the pause request and the
\* step at which the loop confirms the pause, the loop publishes at most one
\* display frame.
C26_PauseWithinOneFrame == pubsPending <= 1

\* C26 witness: pause() has returned and the loop published one frame while
\* the request was pending.
C26_Witness ==
    /\ lastCmd = "pause"
    /\ pcCmd = "idle"
    /\ isPaused
    /\ pausing
    /\ pubsPending = 1

\* C27: no pause() and no resume() is left waiting for a loop that has
\* exited, for the flag it waits for never changes again and the call never
\* returns.
C27_PauseResumeReturn ==
    ~ /\ pcRun = "exited"
      /\ \/ (pcCmd = "pause_wait" /\ ~isPaused)
         \/ (pcCmd = "resume_wait" /\ isPaused)

\* C28: the loop never calls writer.write() on a sink that was released:
\* each write precedes the release.
C28_NoWriteAfterRelease == ~lateWrite

\* C29: the step at which an alignment tick (horizontal correction disabled)
\* applies its offsets leaves the horizontal offset alone: it never puts
\* back the value the tick read before another thread's auto_offset wrote.
C29_NoLostHorizontalUpdate ==
    [][(pcAlign = "apply" /\ pcAlign' = "sleep") => offset_x' = offset_x]_vars

\* C30: whenever the loop combines a frame, each half image has the width of
\* the slice of the display frame it is assigned to: columns [0, w/2) for
\* the left half and [w/2, w) for the right half, together all w columns.
C30_HalvesTileDisplay ==
    (pcRun = "compose") =>
        /\ HalfCols(display_width) = LeftSlice(display_width)
        /\ HalfCols(display_width) = RightSlice(display_width)


\* C31: a gain step taken for a diff outside the tolerance proposes a gain at
\* least 1 above the gain read when diff is positive and at least 1 below it
\* when diff is negative, whatever int(diff * learn_rate) is.
C31_ForwardProgress ==
    (pcTune = "proposed" /\ Abs(Diff(tk.mean)) > parms.tolerance * MeanUnit) =>
        IF Diff(tk.mean) > 0
        THEN tk.proposed >= tk.gain + 1
        ELSE tk.proposed <= tk.gain - 1

\* C31 witness: a diff outside the tolerance whose product with the learn rate
\* is cut off to zero, and a proposal one above the gain.
C31_Witness ==
    /\ pcTune = "proposed"
    /\ Diff(tk.mean) > parms.tolerance * MeanUnit
    /\ IntOf(Diff(tk.mean) * parms.num, MeanUnit * parms.den) = 0
    /\ tk.proposed = tk.gain + 1

\* C32: the alignment thread reads no camera that was released: every step
\* at which its read() takes a frame from a device finds the device not
\* released.
C32_NoReadAfterRelease ==
    [][\A s \in Sides :
          (pcRd["align"] = s /\ pcRd'["align"] # s) => cams[s] # "released"]_vars

\* C33: apply_depth_parameters leaves the control state (stopping, pausing,
\* isPaused, recording), the offsets, the zoom and the display size as they
\* are and gives the pipeline object no new attribute.
C33_DepthParametersOnly ==
    [][apply_depth_parameters =>
          UNCHANGED << stopping, pausing, isPaused, recording, offset_x, offset_y,
                       zoom, display_width, display_height, newFields >>]_vars

\* The left matrix maps every point as the translation by the offsets
\* followed by the right (scale-and-centre) matrix does.
CombinedEqualsTwoStep ==
    \A p \in PointSamples :
        warpAffine(resize_matrix_L, p) =
            warpAffine(resize_matrix_R, warpOffset(set_offset_matrix(offset_x, offset_y), p))

\* C34 as stated: after every step the combined left matrix of ProcessThread
\* equals the two-step pipeline, and a step that changes an offset leaves
\* the right matrix as it was.
C34_CombinedLeftAndRightUntouched ==
    [][/\ (impl = PT) => CombinedEqualsTwoStep'
       /\ (offset_x' # offset_x \/ offset_y' # offset_y) =>
              resize_matrix_R' = resize_matrix_R]_vars

\* C34 amended: after every step the combined left matrix of ProcessThread
\* equals the two-step pipeline, and a step that changes an offset leaves
\* the right matrix that set_resize_matrix gives for the offsets held before
\* (the offsets do not enter it).
C34_CombinedLeftAndRightOffsetFree ==
    [][/\ (impl = PT) => CombinedEqualsTwoStep'
       /\ (offset_x' # offset_x \/ offset_y' # offset_y) =>
              resize_matrix_R' =
                  MatR(zoom, offset_x, offset_y, display_width, display_height)]_vars

\* C34 witness: ProcessThread holds offsets other than zero at a zoom other
\* than 1.0, and its left matrix differs from its right matrix.
C34_Witness ==
    /\ impl = PT
    /\ offset_x # 0
    /\ offset_y # 0
    /\ zoom # ZoomUnit
    /\ resize_matrix_L # resize_matrix_R
    /\ CombinedEqualsTwoStep

\* C35: every device frame a read() call has returned was captured by that
\* same call (and rotated once, by that call).
C35_StableFramePair ==
    \A c \in Callers : \A s \in Sides :
        (got[c][s].kind = "frame") => (got[c][s].by = c /\ got[c][s].rot = 1)

====
